---------------------------- MODULE Spec2Model ----------------------------
(***************************************************************************)
(* Model of datasets_turntaking:                                           *)
(*   - DialogAudioDM (dialog_audio_dm.py): configuration, _dataset, setup  *)
(*     and collate_fn;                                                     *)
(*   - Swithchboard (switchboard.py): _split_generators and generate.      *)
(* Times are integers (one unit = one second for audio durations, one      *)
(* tick for word timings); ratios and probabilities are percentages;       *)
(* ipu_* and vad_horizon are tenths of a second.                           *)
(***************************************************************************)
EXTENDS Integers, Sequences, FiniteSets, TLC

VARIABLES
    dm,            \* the attributes DialogAudioDM.__init__ stores
    train_dset,    \* self.train_dset (NoDset while the attribute is unset)
    val_dset,      \* self.val_dset
    test_dset,     \* self.test_dset
    nextId,        \* identity of the next DialogAudioDataset object built
    stages,        \* the stage arguments setup has been called with
    session_dur,   \* duration of the session a dataset iterates over
    iter,          \* sliding-window iteration of a dataset over the session
    batch,         \* the list of records handed to collate_fn
    ret,           \* the outcome of collate_fn on batch (NoRet before the call)
    config,        \* SwitchboardConfig attributes
    transcript,    \* the words load_transcript returns for a session
    gen,           \* the generator object returned by generate(sessions)
    prev           \* what the previous, finished generator had yielded

vars == <<dm, train_dset, val_dset, test_dset, nextId, stages, session_dur,
          iter, batch, ret, config, transcript, gen, prev>>

dmVars  == <<dm, train_dset, val_dset, test_dset, nextId, stages>>
winVars == <<session_dur, iter>>
colVars == <<batch, ret>>
genVars == <<config, transcript, gen, prev>>

(***************************************************************************)
(* Bounds of the model.                                                    *)
(***************************************************************************)
MaxObjs == 6
MaxSession == 20
MaxDur == 5
MaxBatch == 3
MaxSessions == 3
MaxWords == 2
MaxTime == 4
MaxDiff == 1

Max(a, b) == IF a >= b THEN a ELSE b

(***************************************************************************)
(* DialogAudioDM.__init__                                                  *)
(***************************************************************************)
DMDefaults ==
    [ datasets |-> <<"switchboard">>, type |-> "sliding", audio_mono |-> TRUE,
      audio_duration |-> 10, audio_normalize |-> TRUE, audio_overlap |-> 2,
      audio_include_ratio |-> 40, audio_context_duration |-> 8,
      ipu_min_time |-> 10, ipu_pause_time |-> 2, sample_rate |-> 16000,
      vad |-> TRUE, vad_hz |-> 50, vad_horizon |-> 20, vad_history |-> FALSE,
      vad_history_times |-> <<60, 30, 10, 5>>, flip_channels |-> TRUE,
      flip_probability |-> 50, mask_vad |-> FALSE, mask_vad_probability |-> 50,
      batch_size |-> 4, num_workers |-> 0, pin_memory |-> TRUE,
      transforms |-> "None" ]

\* The data module constructed with keyword arguments kwargs: every argument
\* given is stored unchanged in the attribute of the same name, the others
\* take the defaults of the signature.
DialogAudioDM(kwargs) ==
    [k \in DOMAIN DMDefaults |->
        IF k \in DOMAIN kwargs THEN kwargs[k] ELSE DMDefaults[k]]

NoDset == [id |-> 0]

\* load_spoken_dialog_audio_dataset(datasets, split): the external loader,
\* kept as the handle of what was asked for.
load_spoken_dialog_audio_dataset(datasets, split) ==
    [datasets |-> datasets, split |-> split]

(***************************************************************************)
(* DialogAudioDM._dataset: the keyword arguments DialogAudioDataset is     *)
(* constructed with.                                                       *)
(***************************************************************************)
DatasetKwargs(self, dset, flip) ==
    [ dataset |-> dset,
      feature_extractor |-> "None",
      type |-> self.type,
      audio_mono |-> self.audio_mono,
      audio_duration |-> self.audio_duration,
      audio_overlap |-> self.audio_overlap,
      audio_normalize |-> self.audio_normalize,
      sample_rate |-> self.sample_rate,
      vad_hz |-> self.vad_hz,
      vad_horizon_time |-> self.vad_horizon,
      vad_history |-> self.vad_history,
      vad_history_times |-> self.vad_history_times,
      flip_channels |-> flip,
      flip_probability |-> self.flip_probability,
      mask_vad |-> self.mask_vad,
      mask_vad_probability |-> self.mask_vad_probability,
      transforms |-> self.transforms ]

\* Faulty variant: the flip flag is forwarded for every split.
_dataset_flip_always(self, dset, split) ==
    DatasetKwargs(self, dset, self.flip_channels)

\* Faulty variant: audio_overlap is not forwarded, the dataset falls back on its own
\* default.
_dataset_no_overlap(self, dset, split) ==
    LET kw == DatasetKwargs(self, dset,
                  IF split = "train" THEN self.flip_channels ELSE FALSE)
    IN  [k \in DOMAIN kw \ {"audio_overlap"} |-> kw[k]]

_dataset(self, dset, split) ==
    LET flip == IF split = "train" THEN self.flip_channels ELSE FALSE
    IN  DatasetKwargs(self, dset, flip)

\* The object a constructor call returns: a fresh identity and its arguments.
NewDataset(id, kwargs) == [id |-> id, kwargs |-> kwargs]

(***************************************************************************)
(* DialogAudioDM.setup                                                     *)
(***************************************************************************)
Stages == {"None", "fit", "validate", "test", "predict"}

\* Faulty variant: the test branch also runs for stage "fit".
setup_test_on_fit(stage) ==
    LET fit == stage \in {"None", "fit"}
        tst == stage \in {"None", "fit", "test"}
        tid == IF fit THEN nextId + 2 ELSE nextId
    IN  /\ nextId + 3 <= MaxObjs + 1
        /\ train_dset' = IF fit THEN NewDataset(nextId, _dataset(dm,
                 load_spoken_dialog_audio_dataset(dm.datasets, "train"), "train"))
              ELSE train_dset
        /\ val_dset' = IF fit THEN NewDataset(nextId + 1, _dataset(dm,
                 load_spoken_dialog_audio_dataset(dm.datasets, "val"), "val"))
              ELSE val_dset
        /\ test_dset' = IF tst THEN NewDataset(tid, _dataset(dm,
                 load_spoken_dialog_audio_dataset(dm.datasets, "test"), "test"))
              ELSE test_dset
        /\ nextId' = IF tst THEN tid + 1 ELSE tid
        /\ stages' = stages \cup {stage}
        /\ UNCHANGED <<dm, winVars, colVars, genVars>>

setup(stage) ==
    LET fit == stage \in {"None", "fit"}
        tst == stage \in {"None", "test"}
        tid == IF fit THEN nextId + 2 ELSE nextId
    IN  /\ nextId + 3 <= MaxObjs + 1
        /\ train_dset' = IF fit THEN NewDataset(nextId, _dataset(dm,
                 load_spoken_dialog_audio_dataset(dm.datasets, "train"), "train"))
              ELSE train_dset
        /\ val_dset' = IF fit THEN NewDataset(nextId + 1, _dataset(dm,
                 load_spoken_dialog_audio_dataset(dm.datasets, "val"), "val"))
              ELSE val_dset
        /\ test_dset' = IF tst THEN NewDataset(tid, _dataset(dm,
                 load_spoken_dialog_audio_dataset(dm.datasets, "test"), "test"))
              ELSE test_dset
        /\ nextId' = IF tst THEN tid + 1 ELSE tid
        /\ stages' = stages \cup {stage}
        /\ UNCHANGED <<dm, winVars, colVars, genVars>>


(***************************************************************************)
(* DialogAudioDataset, sliding-window mode (the window engine): windows    *)
(* start at 0 and advance by audio_duration - audio_overlap; a window that *)
(* would reach past the session end is not emitted.                        *)
(***************************************************************************)
\* Defaults of the DialogAudioDataset constructor, for arguments not given.
DatasetDefaults ==
    [ audio_duration |-> 10, audio_overlap |-> 2, audio_include_ratio |-> 40,
      audio_context_duration |-> 8, ipu_min_time |-> 10, ipu_pause_time |-> 2 ]

\* The value the dataset object d works with for constructor argument name.
Param(d, name) ==
    IF name \in DOMAIN d.kwargs THEN d.kwargs[name] ELSE DatasetDefaults[name]

NoIter == [state |-> "none"]

BuiltDatasets == {train_dset, val_dset, test_dset} \ {NoDset}

\* iter(dataset): a new pass over the session's windows.
IterStart ==
    /\ iter.state # "running"
    /\ \E d \in BuiltDatasets :
          /\ d.kwargs.type = "sliding"
          /\ iter' = [state |-> "running", dset |-> d, offset |-> 0,
                      windows |-> <<>>]
    /\ UNCHANGED <<dmVars, session_dur, colVars, genVars>>

\* The next window fits into the session: it is emitted with its full length.
WindowEmit ==
    /\ iter.state = "running"
    /\ Len(iter.windows) <= MaxSession
    /\ LET duration == Param(iter.dset, "audio_duration")
           step == duration - Param(iter.dset, "audio_overlap")
       IN  /\ iter.offset + duration <= session_dur
           /\ iter' = [iter EXCEPT
                 !.windows = Append(@, [offset |-> iter.offset,
                                        duration |-> duration]),
                 !.offset = @ + step]
    /\ UNCHANGED <<dmVars, session_dur, colVars, genVars>>

\* The next window would reach past the session end: the pass is over.
WindowStop ==
    /\ iter.state = "running"
    /\ iter.offset + Param(iter.dset, "audio_duration") > session_dur
    /\ iter' = [iter EXCEPT !.state = "done"]
    /\ UNCHANGED <<dmVars, session_dur, colVars, genVars>>

(***************************************************************************)
(* DialogAudioDM.collate_fn                                                *)
(***************************************************************************)
CoreKeys == {"waveform", "dataset", "session"}
OptionalFields == {"vad", "vad_history", "vad_label"}

\* A tensor with one row (batch dimension 1), as the dataset yields it.
Tensor(field, session) == <<[field |-> field, session |-> session]>>

\* A batch record of a window of `session` carrying the optional fields
\* `present`.
BatchRecord(session, present) ==
    [k \in CoreKeys \cup present |->
        CASE k = "dataset" -> "switchboard"
          [] k = "session" -> session
          [] OTHER -> Tensor(k, session)]

WindowSessions == {"sw2001", "sw2005"}

BatchRecords ==
    {BatchRecord(s, p) : s \in WindowSessions, p \in SUBSET OptionalFields}

RECURSIVE Concat(_)
Concat(tensors) ==
    IF tensors = <<>> THEN <<>> ELSE Head(tensors) \o Concat(Tail(tensors))

\* torch.cat along dimension 0; an empty list of tensors is an error.
TorchCatRaises(tensors) == tensors = <<>>
torch_cat(tensors) == Concat(tensors)

\* The list the loop of collate_fn builds for `field`: b[field] of every
\* record b that has the key, in batch order.
Collected(b, field) ==
    LET having == SelectSeq(b, LAMBDA r : field \in DOMAIN r)
    IN  [i \in 1..Len(having) |-> having[i][field]]

NoRet == [raised |-> "pending"]

\* Faulty variant: the vad_history branch tests the vad list (copy-paste slip).
collate_fn_history_guard(b) ==
    LET waveforms == [i \in 1..Len(b) |-> b[i]["waveform"]]
        dset_names == [i \in 1..Len(b) |-> b[i]["dataset"]]
        sessions == [i \in 1..Len(b) |-> b[i]["session"]]
        added == {f \in {"vad", "vad_label"} : Len(Collected(b, f)) > 0}
                 \cup (IF Len(Collected(b, "vad")) > 0
                       THEN {"vad_history"} ELSE {})
    IN  IF \/ TorchCatRaises(waveforms)
           \/ \E f \in added : TorchCatRaises(Collected(b, f))
        THEN [raised |-> "RuntimeError"]
        ELSE [raised |-> "none",
              value |-> [k \in {"waveform", "dset_name", "session"} \cup added |->
                  CASE k = "waveform" -> torch_cat(waveforms)
                    [] k = "dset_name" -> dset_names
                    [] k = "session" -> sessions
                    [] OTHER -> torch_cat(Collected(b, k))]]

collate_fn(b) ==
    LET waveforms == [i \in 1..Len(b) |-> b[i]["waveform"]]
        dset_names == [i \in 1..Len(b) |-> b[i]["dataset"]]
        sessions == [i \in 1..Len(b) |-> b[i]["session"]]
        added == {f \in OptionalFields : Len(Collected(b, f)) > 0}
    IN  IF TorchCatRaises(waveforms)
        THEN [raised |-> "RuntimeError"]
        ELSE [raised |-> "none",
              value |-> [k \in {"waveform", "dset_name", "session"} \cup added |->
                  CASE k = "waveform" -> torch_cat(waveforms)
                    [] k = "dset_name" -> dset_names
                    [] k = "session" -> sessions
                    [] OTHER -> torch_cat(Collected(b, k))]]

\* The DataLoader draws one more record for the batch it is assembling.
Sample ==
    /\ ret = NoRet
    /\ Len(batch) < MaxBatch
    /\ \E r \in BatchRecords : batch' = Append(batch, r)
    /\ UNCHANGED <<ret, dmVars, winVars, genVars>>

\* The DataLoader calls collate_fn on the batch it assembled (batch_size >= 1
\* records, fewer for a last batch).
Collate ==
    /\ ret = NoRet
    /\ Len(batch) >= 1
    /\ ret' = collate_fn(batch)
    /\ UNCHANGED <<batch, dmVars, winVars, genVars>>

\* The DataLoader starts on the next batch.
NextBatch ==
    /\ ret # NoRet
    /\ batch' = <<>>
    /\ ret' = NoRet
    /\ UNCHANGED <<dmVars, winVars, genVars>>

(***************************************************************************)
(* VAD extraction (extract_vad_list_from_words): per channel, the words    *)
(* sorted by start are merged into segments; a word joins the open segment *)
(* when word.start - segment.end <= min_word_vad_diff, else the segment is *)
(* closed and a new one opens at the word's start.                         *)
(***************************************************************************)
Channels == {0, 1}

Word(start, end, channel) ==
    [text |-> "w", start |-> start, end |-> end, channel |-> channel]

\* w inserted into the start-sorted list ws, after the words that start no
\* later (a stable sort).
RECURSIVE InsertByStart(_, _)
InsertByStart(ws, w) ==
    IF ws = <<>> THEN <<w>>
    ELSE IF Head(ws).start <= w.start
         THEN <<Head(ws)>> \o InsertByStart(Tail(ws), w)
         ELSE <<w>> \o ws

RECURSIVE SortByStart(_)
SortByStart(ws) ==
    IF ws = <<>> THEN <<>>
    ELSE InsertByStart(SortByStart(SubSeq(ws, 1, Len(ws) - 1)), ws[Len(ws)])

\* The segments of the sorted words ws[i..], `segs` closed so far and `cur`
\* the open one.
RECURSIVE MergeWords(_, _, _, _, _)
MergeWords(ws, i, segs, cur, diff) ==
    IF i > Len(ws) THEN Append(segs, cur)
    ELSE IF ws[i].start - cur.end <= diff
         THEN MergeWords(ws, i + 1, segs,
                         [cur EXCEPT !.end = Max(@, ws[i].end)], diff)
         ELSE MergeWords(ws, i + 1, Append(segs, cur),
                         [start |-> ws[i].start, end |-> ws[i].end], diff)

ChannelSegments(ws, diff) ==
    IF ws = <<>> THEN <<>>
    ELSE MergeWords(ws, 2, <<>>, [start |-> ws[1].start, end |-> ws[1].end], diff)

extract_vad_list_from_words(dialog, min_word_vad_diff) ==
    [ch \in Channels |->
        ChannelSegments(
            SortByStart(SelectSeq(dialog, LAMBDA w : w.channel = ch)),
            min_word_vad_diff)]

\* remove_words_from_dialog: the dialog without its word-level detail.
remove_words_from_dialog(dialog) ==
    [i \in 1..Len(dialog) |->
        [start |-> dialog[i].start, end |-> dialog[i].end,
         channel |-> dialog[i].channel]]

(***************************************************************************)
(* Swithchboard: configuration, _split_generators and generate             *)
(***************************************************************************)
\* Session ids of a split list are strings (read_txt) or numbers; str() of
\* either is the string of the same digits.
IntId(n) == [t |-> "int", v |-> n]
StrId(n) == [t |-> "str", v |-> n]
str(session) == StrId(session.v)

\* read_json(REL_AUDIO_PATH): the audio index, keyed by session id strings.
sess_2_rel_path ==
    [s \in {StrId(1), StrId(2)} |-> [dir |-> "swb1_d1/data", name |-> s.v]]

\* The ids a split list may hold; StrId(3) is not in the audio index.
SessionIds == {IntId(1), StrId(1), StrId(2), StrId(3)}

Splits == {"train", "validation", "test"}

SwitchboardConfig(train_sessions, val_sessions, test_sessions, min_word_vad_diff) ==
    [ root |-> "~/projects/data/switchboard/audio", ext |-> ".wav",
      min_word_vad_diff |-> min_word_vad_diff, remove_restarts |-> FALSE,
      train_sessions |-> train_sessions, val_sessions |-> val_sessions,
      test_sessions |-> test_sessions ]

\* gen_kwargs of the SplitGenerator of every split.
_split_generators(cfg) ==
    [ train |-> [sessions |-> cfg.train_sessions],
      validation |-> [sessions |-> cfg.val_sessions],
      test |-> [sessions |-> cfg.test_sessions] ]

\* load_transcript(session, session_dir, ...): the words of the session.
load_transcript(session, words) == words

NoGen == [state |-> "none"]

\* generate(sessions): a generator object, nothing run yet.
generate(sessions) ==
    [state |-> "running", sessions |-> sessions, idx |-> 1, yielded |-> <<>>]

\* The (key, example) pair one pass of the loop body yields; `session` is
\* the id after str().
Example(cfg, session, words, diff) ==
    LET dialog == load_transcript(session, words)
    IN  [ key |-> session,
          example |->
            [ session |-> session,
              dataset |-> "switchboard",
              audio_path |-> <<cfg.root, sess_2_rel_path[session], cfg.ext>>,
              vad_list |-> extract_vad_list_from_words(dialog, diff),
              dialog |-> remove_words_from_dialog(dialog) ] ]

\* Faulty variant: a session missing from the audio index is skipped.
generate_next_skip_unknown(g, cfg, words) ==
    IF g.idx > Len(g.sessions) THEN [g EXCEPT !.state = "done"]
    ELSE LET session == str(g.sessions[g.idx])
         IN  IF session \notin DOMAIN sess_2_rel_path
             THEN [g EXCEPT !.idx = @ + 1]
             ELSE [g EXCEPT
                     !.yielded = Append(@, Example(cfg, session, words,
                                                   cfg.min_word_vad_diff)),
                     !.idx = @ + 1]

\* Faulty variant: the example carries the list element itself, not str() of it.
generate_next_raw_session(g, cfg, words) ==
    IF g.idx > Len(g.sessions) THEN [g EXCEPT !.state = "done"]
    ELSE LET session == str(g.sessions[g.idx])
             ex == Example(cfg, session, words, cfg.min_word_vad_diff)
         IN  IF session \notin DOMAIN sess_2_rel_path
             THEN [g EXCEPT !.state = "error"]
             ELSE [g EXCEPT
                     !.yielded = Append(@, [ex EXCEPT
                                   !.example.session = g.sessions[g.idx]]),
                     !.idx = @ + 1]

\* Faulty variant: min_word_vad_diff of the configuration is not handed to the
\* extractor, which bridges no gap.
generate_next_no_diff(g, cfg, words) ==
    IF g.idx > Len(g.sessions) THEN [g EXCEPT !.state = "done"]
    ELSE LET session == str(g.sessions[g.idx])
         IN  IF session \notin DOMAIN sess_2_rel_path
             THEN [g EXCEPT !.state = "error"]
             ELSE [g EXCEPT
                     !.yielded = Append(@, Example(cfg, session, words, 0)),
                     !.idx = @ + 1]

\* next() of the generator g: the loop runs to its next yield, to its end
\* (StopIteration) or into the KeyError of sess_2_rel_path[session].
generate_next(g, cfg, words) ==
    IF g.idx > Len(g.sessions) THEN [g EXCEPT !.state = "done"]
    ELSE LET session == str(g.sessions[g.idx])
         IN  IF session \notin DOMAIN sess_2_rel_path
             THEN [g EXCEPT !.state = "error"]
             ELSE [g EXCEPT
                     !.yielded = Append(@, Example(cfg, session, words,
                                                   cfg.min_word_vad_diff)),
                     !.idx = @ + 1]

NoPrev == [state |-> "none"]

\* _generate_examples(sessions) for a split: the builder starts a generator
\* over the split's session list.
GenStart(split) ==
    /\ gen.state # "running"
    /\ gen' = generate(_split_generators(config)[split].sessions)
    /\ prev' = IF gen.state = "none" THEN prev ELSE gen
    /\ UNCHANGED <<config, transcript, dmVars, winVars, colVars>>

\* The builder asks the generator for its next example.
GenNext ==
    /\ gen.state = "running"
    /\ gen' = generate_next(gen, config, transcript)
    /\ UNCHANGED <<config, transcript, prev, dmVars, winVars, colVars>>


(***************************************************************************)
(* Initial states and specifications                                       *)
(***************************************************************************)
DMIdle ==
    /\ dm = DialogAudioDM(<<>>)
    /\ train_dset = NoDset /\ val_dset = NoDset /\ test_dset = NoDset
    /\ nextId = 1
    /\ stages = {}

WinIdle == session_dur = 0 /\ iter = NoIter

ColIdle == batch = <<>> /\ ret = NoRet

GenIdle ==
    /\ config = SwitchboardConfig(<<>>, <<>>, <<>>, 1)
    /\ transcript = <<>>
    /\ gen = NoGen
    /\ prev = NoPrev

\* The data module under the configurations of the window engine and of
\* the channel flip; no dataset attribute is set before setup.
InitDM ==
    /\ dm \in {DialogAudioDM([type |-> t, audio_duration |-> d[1],
                              audio_overlap |-> d[2], audio_include_ratio |-> r,
                              audio_context_duration |-> c, ipu_min_time |-> m,
                              ipu_pause_time |-> p, flip_channels |-> f]) :
                  t \in {"sliding", "ipu"}, d \in {<<10, 2>>, <<5, 1>>},
                  r \in {40, 90}, c \in {8, 4}, m \in {10, 5}, p \in {2, 5},
                  f \in BOOLEAN}
    /\ train_dset = NoDset /\ val_dset = NoDset /\ test_dset = NoDset
    /\ nextId = 1
    /\ stages = {}
    /\ WinIdle /\ ColIdle /\ GenIdle

NextDM == \E stage \in Stages : setup(stage)

SpecDM == InitDM /\ [][NextDM]_vars

\* A sliding-window data module and a session of some duration.
InitWin ==
    /\ dm \in {DialogAudioDM([type |-> "sliding", audio_duration |-> d,
                              audio_overlap |-> o]) :
                  d \in 1..MaxDur, o \in 0..(MaxDur - 1)}
    /\ dm.audio_overlap < dm.audio_duration
    /\ train_dset = NoDset /\ val_dset = NoDset /\ test_dset = NoDset
    /\ nextId = 1
    /\ stages = {}
    /\ session_dur \in 0..MaxSession
    /\ iter = NoIter
    /\ ColIdle /\ GenIdle

NextWin == setup("fit") \/ IterStart \/ WindowEmit \/ WindowStop

SpecWin == InitWin /\ [][NextWin]_vars

InitCollate == ColIdle /\ DMIdle /\ WinIdle /\ GenIdle

NextCollate == Sample \/ Collate \/ NextBatch

SpecCollate == InitCollate /\ [][NextCollate]_vars

RECURSIVE SeqsUpTo(_, _)
SeqsUpTo(S, n) ==
    IF n = 0 THEN {<<>>}
    ELSE LET shorter == SeqsUpTo(S, n - 1)
         IN  shorter \cup {Append(q, x) : q \in shorter, x \in S}

\* Split lists holding at most MaxSessions session ids in all: a list of
\* ids cut into the train, validation and test lists.
InitGen ==
    /\ \E all \in SeqsUpTo(SessionIds, MaxSessions) :
       \E i \in 0..Len(all) :
       \E j \in i..Len(all) :
          config = SwitchboardConfig(SubSeq(all, 1, i), SubSeq(all, i + 1, j),
                                     SubSeq(all, j + 1, Len(all)), 1)
    /\ transcript = <<Word(0, 1, 0), Word(3, 4, 0), Word(1, 2, 1)>>
    /\ gen = NoGen
    /\ prev = NoPrev
    /\ DMIdle /\ WinIdle /\ ColIdle

NextGen == (\E split \in Splits : GenStart(split)) \/ GenNext

SpecGen == InitGen /\ [][NextGen]_vars

Words ==
    {Word(s, e, ch) : s \in 0..MaxTime, e \in 0..MaxTime, ch \in Channels}

\* Any transcript of at most MaxWords words (start < end), in any order, and
\* any tolerance up to MaxDiff.
InitVad ==
    /\ transcript \in SeqsUpTo({w \in Words : w.start < w.end}, MaxWords)
    /\ config \in {SwitchboardConfig(<<StrId(1)>>, <<>>, <<>>, d) :
                      d \in 0..MaxDiff}
    /\ gen = NoGen
    /\ prev = NoPrev
    /\ DMIdle /\ WinIdle /\ ColIdle

NextVad == GenStart("train") \/ GenNext

SpecVad == InitVad /\ [][NextVad]_vars

Init == InitDM
Next == NextDM
Spec == SpecDM

(***************************************************************************)
(* Properties                                                              *)
(***************************************************************************)
Has(r, field) == field \in DOMAIN r
NoneHas(b, field) == \A i \in 1..Len(b) : ~Has(b[i], field)
AllHave(b, field) == \A i \in 1..Len(b) : Has(b[i], field)
\* The records of b disagree on the presence of an optional field.
Mixed(b) == \E f \in OptionalFields : ~NoneHas(b, f) /\ ~AllHave(b, f)

\* C1: collate_fn fails with InconsistentBatch, and returns no batch,
\* whenever the records of the batch disagree on the presence of an optional
\* field.
C1_MixedBatchRaises ==
    (ret # NoRet /\ Mixed(batch)) => ret.raised = "InconsistentBatch"

\* C7: when no record carries an optional field collate_fn succeeds and the
\* result has no key for it, waveform, dset_name and session being present
\* in every result; when every record carries the field its key is present.
C7_PresenceFollowsBatch ==
    ret # NoRet =>
        /\ ret.raised = "none" =>
              {"waveform", "dset_name", "session"} \subseteq DOMAIN ret.value
        /\ \A f \in OptionalFields :
              /\ NoneHas(batch, f) =>
                    ret.raised = "none" /\ f \notin DOMAIN ret.value
              /\ AllHave(batch, f) =>
                    ret.raised = "none" /\ f \in DOMAIN ret.value

C7_Witness ==
    /\ ret # NoRet
    /\ Len(batch) = 3
    /\ NoneHas(batch, "vad_history") /\ AllHave(batch, "vad")
    /\ ret.raised = "none"
    /\ DOMAIN ret.value = {"waveform", "dset_name", "session", "vad"}

\* The entry of result key k that input record r contributes.
InputEntry(r, k) ==
    CASE k = "dset_name" -> r["dataset"]
      [] k = "session" -> r["session"]
      [] OTHER -> r[k][1]

\* C8: in every batch collate_fn returns, each field present holds exactly
\* one entry per input record, in input order.
C8_RowAligned ==
    (ret # NoRet /\ ret.raised = "none") =>
        \A k \in DOMAIN ret.value :
            /\ Len(ret.value[k]) = Len(batch)
            /\ \A i \in 1..Len(batch) :
                  /\ k \in OptionalFields => Has(batch[i], k)
                  /\ ret.value[k][i] = InputEntry(batch[i], k)

\* C2: the dataset built for split "train" has flip_channels equal to the
\* configured value, the datasets built for the other splits have
\* flip_channels = FALSE, after any sequence of setup calls.
C2_FlipOnlyForTrain ==
    /\ train_dset # NoDset => train_dset.kwargs.flip_channels = dm.flip_channels
    /\ val_dset # NoDset => val_dset.kwargs.flip_channels = FALSE
    /\ test_dset # NoDset => test_dset.kwargs.flip_channels = FALSE

C2_Witness ==
    /\ dm.flip_channels = TRUE
    /\ {"fit", "test"} \subseteq stages
    /\ train_dset # NoDset /\ train_dset.kwargs.flip_channels = TRUE
    /\ val_dset # NoDset /\ val_dset.kwargs.flip_channels = FALSE
    /\ test_dset # NoDset /\ test_dset.kwargs.flip_channels = FALSE

WindowParams ==
    {"audio_duration", "audio_overlap", "audio_include_ratio",
     "audio_context_duration", "ipu_min_time", "ipu_pause_time"}

\* C6: the DialogAudioDataset that _dataset constructs receives, for each of
\* audio_duration, audio_overlap, audio_include_ratio,
\* audio_context_duration, ipu_min_time and ipu_pause_time, the value
\* configured on the data module.
C6_WindowParamsForwarded ==
    \A d \in BuiltDatasets : \A p \in WindowParams :
        p \in DOMAIN d.kwargs /\ d.kwargs[p] = dm[p]

Built(d) == d # NoDset

\* C10 (state part): the train and validation datasets exist iff setup was
\* called with stage None or "fit", the test dataset iff it was called with
\* stage None or "test".
C10_Existence ==
    /\ Built(train_dset) <=> (stages \cap {"None", "fit"} # {})
    /\ Built(val_dset) <=> (stages \cap {"None", "fit"} # {})
    /\ Built(test_dset) <=> (stages \cap {"None", "test"} # {})

\* C10 (step part): setup("fit") leaves the test dataset as it is,
\* setup("test") the train and validation datasets, and setup with any other
\* stage than None, "fit" and "test" all three.
C10_Frame ==
    /\ setup("fit") => test_dset' = test_dset
    /\ setup("test") => (train_dset' = train_dset /\ val_dset' = val_dset)
    /\ \A stage \in Stages \ {"None", "fit", "test"} :
          setup(stage) => UNCHANGED <<dm, train_dset, val_dset, test_dset, nextId>>

\* C10: after any sequence of setup calls the datasets that exist are those
\* of the stages called, and each call changes only the datasets of its stage.
C10_SetupStages == []C10_Existence /\ [][C10_Frame]_vars

C10_Witness ==
    /\ stages = {"fit", "predict"}
    /\ Built(train_dset) /\ Built(val_dset) /\ ~Built(test_dset)
    /\ nextId = 5

Offsets(ws) == [i \in 1..Len(ws) |-> ws[i].offset]

\* The part of C5 about every session: each emitted window has the full
\* length audio_duration, sits at a multiple of audio_duration -
\* audio_overlap and ends inside the session; the pass ends only when the
\* next window would reach past the session end.
C5_FullWindows ==
    iter.state # "none" =>
        LET duration == dm.audio_duration
            step == dm.audio_duration - dm.audio_overlap
            ws == iter.windows
        IN  /\ \A i \in 1..Len(ws) :
                  /\ ws[i].offset = (i - 1) * step
                  /\ ws[i].duration = duration
                  /\ ws[i].offset + duration <= session_dur
            /\ iter.state = "done" => Len(ws) * step + duration > session_dur

ExampleSession ==
    /\ iter.state = "done"
    /\ session_dur = 20 /\ dm.audio_duration = 5 /\ dm.audio_overlap = 1

Known(session) == str(session) \in DOMAIN sess_2_rel_path
AllKnown(sessions) == \A i \in 1..Len(sessions) : Known(sessions[i])
Keys(yielded) == [i \in 1..Len(yielded) |-> yielded[i].key]
Injective(q) == \A i, j \in 1..Len(q) : q[i] = q[j] => i = j

\* C3: a session id of the list that is absent from the audio index ends
\* generation in an error at that session: no record is yielded for it or
\* for any later session, and the generator never runs to its normal end.
C3_UnknownSessionFatal ==
    gen.state # "none" =>
        /\ \A i \in 1..Len(gen.yielded) : gen.yielded[i].key \in DOMAIN sess_2_rel_path
        /\ \A m \in 1..Len(gen.sessions) :
              ~Known(gen.sessions[m]) =>
                  /\ Len(gen.yielded) < m
                  /\ gen.idx <= m
                  /\ gen.state # "done"
        /\ gen.state = "error" =>
              /\ ~Known(gen.sessions[gen.idx])
              /\ Len(gen.yielded) = gen.idx - 1

C3_Witness ==
    /\ gen.state = "error"
    /\ Len(gen.sessions) = 3
    /\ gen.idx = 2
    /\ Len(gen.yielded) = 1
    /\ Known(gen.sessions[3])

\* C9: for a session list whose ids are all in the audio index, generate
\* yields one record per list element, in list order, keyed by str() of the
\* id, carrying that key as session and "switchboard" as dataset; two runs
\* over the same list yield the same keys in the same order; the keys are
\* unique only if the list has no duplicate ids.
C9_OneRecordPerSession ==
    (gen.state # "none" /\ AllKnown(gen.sessions)) =>
        /\ gen.state # "error"
        /\ Len(gen.yielded) = gen.idx - 1
        /\ \A i \in 1..Len(gen.yielded) :
              /\ gen.yielded[i].key = str(gen.sessions[i])
              /\ gen.yielded[i].example.session = gen.yielded[i].key
              /\ gen.yielded[i].example.dataset = "switchboard"
        /\ gen.state = "done" =>
              /\ Len(gen.yielded) = Len(gen.sessions)
              /\ Injective(Keys(gen.yielded)) => Injective(gen.sessions)
              /\ (prev.state = "done" /\ prev.sessions = gen.sessions) =>
                    Keys(prev.yielded) = Keys(gen.yielded)

C9_Witness ==
    /\ gen.state = "done"
    /\ prev.state = "done"
    /\ prev.sessions = gen.sessions
    /\ gen.sessions = <<StrId(2), IntId(1), StrId(2)>>
    /\ Keys(gen.yielded) = <<StrId(2), StrId(1), StrId(2)>>

=============================================================================
